---- MODULE Spec2Model ----
(***************************************************************************)
(* Model of the one-dimensional spline evaluator Spline<T> (src/spline.h). *)
(*                                                                         *)
(* The evaluator borrows three parallel arrays _x, _y, _m, a length, a     *)
(* degree and the search cursor _prev_point.  Arrays are modelled as       *)
(* sequences; the C index i is the sequence index i + 1.  A value of the   *)
(* scalar type T (float or double) is an exact fraction                    *)
(* <<numerator, denominator>> in lowest terms; the pair <<0, 0>> is NaN,   *)
(* the value every comparison with which is false.                         *)
(***************************************************************************)
EXTENDS Integers, Sequences, FiniteSets, TLC

VARIABLES _x, _y, _m, _degree, _length, _prev_point, op, call

vars == <<_x, _y, _m, _degree, _length, _prev_point, op, call>>

(***************************************************************************)
(* Bound of the model.                                                     *)
(***************************************************************************)
\* longest sample table
MaxLen == 4

(***************************************************************************)
(* Program constants.                                                      *)
(***************************************************************************)
Hermite == 10
Catmull == 11

\* the degrees calc handles (case 0, case 1, case Hermite, case Catmull)
Modes == {0, 1, Hermite, Catmull}
\* an int that no case of calc's switch handles
Unhandled == 2
\* setDegree takes any int; a default-constructed evaluator holds any int
DegreeVals == Modes \cup {Unhandled}

(***************************************************************************)
(* The scalar type T.                                                      *)
(***************************************************************************)
Abs(n) == IF n < 0 THEN -n ELSE n

RECURSIVE GCD(_, _)
GCD(a, b) == IF b = 0 THEN a ELSE GCD(b, a % b)

NaN == <<0, 0>>

Frac(n, d) ==
  IF d = 0 THEN NaN
  ELSE LET g == GCD(Abs(n), Abs(d))
           s == IF d < 0 THEN -1 ELSE 1
       IN <<s * (n \div g), s * (d \div g)>>

T(n) == <<n, 1>>
IsNum(a) == a[2] # 0
TAdd(a, b) == Frac(a[1] * b[2] + b[1] * a[2], a[2] * b[2])
TSub(a, b) == Frac(a[1] * b[2] - b[1] * a[2], a[2] * b[2])
TMul(a, b) == Frac(a[1] * b[1], a[2] * b[2])
TDiv(a, b) == Frac(a[1] * b[2], a[2] * b[1])
\* the operators ==, < and > of T
TEq(a, b) == IsNum(a) /\ IsNum(b) /\ a = b
TLess(a, b) == IsNum(a) /\ IsNum(b) /\ a[1] * b[2] < b[1] * a[2]
TGreater(a, b) == TLess(b, a)

RECURSIVE pow(_, _)
pow(t, k) == IF k = 0 THEN T(1) ELSE TMul(t, pow(t, k - 1))

\* values an indeterminate read or a missing return statement may produce
Wild == {T(-3), T(5)}
Wilds == Wild \X Wild

(***************************************************************************)
(* Array reads.  w is what a read outside the array yields.                *)
(***************************************************************************)
X(i, w) == IF i >= 0 /\ i < Len(_x) THEN _x[i + 1] ELSE w[1]
Y(i, w) == IF i >= 0 /\ i < Len(_y) THEN _y[i + 1] ELSE w[1]
M(i, wm) == IF i >= 0 /\ i < Len(_m) THEN _m[i + 1] ELSE wm

(***************************************************************************)
(* Hermite basis and tangents.                                             *)
(***************************************************************************)
hermite_00(t) == TAdd(TSub(TMul(T(2), pow(t, 3)), TMul(T(3), pow(t, 2))), T(1))
hermite_10(t) == TAdd(TSub(pow(t, 3), TMul(T(2), pow(t, 2))), t)
hermite_01(t) == TSub(TMul(T(3), pow(t, 2)), TMul(T(2), pow(t, 3)))
hermite_11(t) == TSub(pow(t, 3), pow(t, 2))

hermite(t, p0, p1, m0, m1, x0, x1) ==
  TAdd(TAdd(TAdd(TMul(hermite_00(t), p0),
                 TMul(TMul(hermite_10(t), TSub(x1, x0)), m0)),
            TMul(hermite_01(t), p1)),
       TMul(TMul(hermite_11(t), TSub(x1, x0)), m1))

catmull_tangent(i, w) ==
  IF TEq(X(i + 1, w), X(i - 1, w))
  THEN T(0)
  ELSE TDiv(TSub(Y(i + 1, w), Y(i - 1, w)), TSub(X(i + 1, w), X(i - 1, w)))

(***************************************************************************)
(* calc(x, i): the value on segment i for the active degree.  The result   *)
(* records the value returned (ret), the branch taken and the indices of   *)
(* _x and _y (reads) and of _m (mreads) that were read.                    *)
(***************************************************************************)
\* the tests that pick the first and the last segment in Catmull mode
FirstSegment(i) == i = 0
\* (a variant that tests the last sample instead of the last segment)
LastSegment_OffByOne(i) == i = _length - 1
LastSegment(i) == i = _length - 2

calc(x, i, w) ==
  CASE _degree = 0 ->
         [ret |-> Y(i, w), branch |-> "constant", reads |-> {i}, mreads |-> {}]
    [] _degree = 1 ->
         IF TEq(X(i, w), X(i + 1, w))
         THEN [ret |-> Y(i, w), branch |-> "linear_guard", reads |-> {i, i + 1},
               mreads |-> {}]
         ELSE [ret |-> TAdd(Y(i, w),
                            TDiv(TMul(TSub(Y(i + 1, w), Y(i, w)), TSub(x, X(i, w))),
                                 TSub(X(i + 1, w), X(i, w)))),
               branch |-> "linear", reads |-> {i, i + 1}, mreads |-> {}]
    [] _degree = Hermite ->
         [ret |-> hermite(TDiv(TSub(x, X(i, w)), TSub(X(i + 1, w), X(i, w))),
                          Y(i, w), Y(i + 1, w), M(i, w[1]), M(i + 1, w[2]),
                          X(i, w), X(i + 1, w)),
          branch |-> "hermite", reads |-> {i, i + 1}, mreads |-> {i, i + 1}]
    [] _degree = Catmull ->
         IF FirstSegment(i)
         THEN [ret |-> Y(1, w), branch |-> "catmull_first", reads |-> {1},
               mreads |-> {}]
         ELSE IF LastSegment(i)
         THEN [ret |-> Y(_length - 2, w), branch |-> "catmull_last",
               reads |-> {_length - 2}, mreads |-> {}]
         ELSE LET t == TDiv(TSub(x, X(i, w)), TSub(X(i + 1, w), X(i, w)))
                  m0 == IF i = 0 THEN T(0) ELSE catmull_tangent(i, w)
                  m1 == IF i = _length - 1 THEN T(0) ELSE catmull_tangent(i + 1, w)
              IN [ret |-> hermite(t, Y(i, w), Y(i + 1, w), m0, m1,
                                  X(i, w), X(i + 1, w)),
                  branch |-> "catmull",
                  reads |-> {i, i + 1}
                            \cup (IF i = 0 THEN {} ELSE {i - 1, i + 1})
                            \cup (IF i = _length - 1 THEN {} ELSE {i, i + 2}),
                  mreads |-> {}]
    [] OTHER ->
         \* no case matches: control leaves calc without a return statement
         [ret |-> w[1], branch |-> "none", reads |-> {}, mreads |-> {}]

(***************************************************************************)
(* value(x): range pre-checks, then the cyclic scan from the cursor.       *)
(* Scan(i, x, w) is the for loop from iteration i on.                      *)
(***************************************************************************)
\* the loop condition and the candidate of iteration i
\* (variants: a loop that stops one candidate early, a scan that ignores
\* the cursor, a scan that does not wrap around)
LoopCond_Short(i) == i < _length - 1
LoopCond(i) == i < _length
Index_NoCursor(i) == i % _length
Index_NoWrap(i) == i + _prev_point
Index(i) == (i + _prev_point) % _length

\* the two range pre-checks
\* (variants of the upper one: <= for <, > for <, and no check at all)
Below(x, w) == TGreater(X(0, w), x)
Above_NonStrict(x, w) == TLess(X(_length - 1, w), x) \/ TEq(X(_length - 1, w), x)
Above_Flipped(x, w) == TGreater(X(_length - 1, w), x)
Above_Omitted(x, w) == FALSE
Above(x, w) == TLess(X(_length - 1, w), x)

RECURSIVE Scan(_, _, _)
Scan(i, x, w) ==
  IF ~LoopCond(i)
  THEN [exit |-> "none", index |-> -1, visited |-> <<>>, reads |-> {}]
  ELSE LET index == Index(i) IN
       IF TEq(X(index, w), x)
       THEN [exit |-> "exact", index |-> index, visited |-> <<index>>,
             reads |-> {index}]
       ELSE IF TLess(X(index, w), x) /\ TLess(x, X(index + 1, w))
       THEN [exit |-> "calc", index |-> index, visited |-> <<index>>,
             reads |-> {index, index + 1}]
       ELSE LET rest == Scan(i + 1, x, w) IN
            [rest EXCEPT !.visited = <<index>> \o @,
                         !.reads = @ \cup {index}
                                     \cup (IF TLess(X(index, w), x)
                                           THEN {index + 1} ELSE {})]

\* what is recorded of the latest call of value; NoCall when the latest
\* operation is not value
NoCall ==
  [arg |-> T(0), exit |-> "-", ret |-> T(0), from |-> 0, visited |-> <<>>,
   at |-> -1, branch |-> "-", reads |-> {}, indet |-> FALSE, asc |-> FALSE]

\* the outcome of value(x): the cursor it leaves and, in obs, the value
\* returned (ret), the return statement taken (exit: below, above, exact,
\* calc, or none when control leaves value without a return), the cursor
\* it started from (from), the candidates examined in order (visited), the
\* segment handed to calc (at), the indices of _x and _y read (reads) and
\* whether an indeterminate value was read or returned (indet)
value(x, w) ==
  LET base == [NoCall EXCEPT !.arg = x, !.from = _prev_point]
      InX(r) == r \subseteq 0..(Len(_x) - 1)
      InM(r) == r \subseteq 0..(Len(_m) - 1)
  IN
  IF Below(x, w)
  THEN [cursor |-> _prev_point,
        obs |-> [base EXCEPT !.exit = "below", !.ret = Y(0, w), !.reads = {0},
                             !.indet = ~InX({0})]]
  ELSE IF Above(x, w)
  THEN [cursor |-> _prev_point,
        obs |-> [base EXCEPT !.exit = "above", !.ret = Y(_length - 1, w),
                             !.reads = {0, _length - 1},
                             !.indet = ~InX({0, _length - 1})]]
  ELSE LET s == Scan(0, x, w)
           pre == {0, _length - 1} \cup s.reads
       IN CASE s.exit = "exact" ->
                 [cursor |-> s.index,
                  obs |-> [base EXCEPT !.exit = "exact", !.ret = Y(s.index, w),
                                       !.visited = s.visited, !.reads = pre,
                                       !.indet = ~InX(pre)]]
            [] s.exit = "calc" ->
                 LET c == calc(x, s.index, w) IN
                 [cursor |-> s.index,
                  obs |-> [base EXCEPT !.exit = "calc", !.ret = c.ret,
                                       !.visited = s.visited, !.at = s.index,
                                       !.branch = c.branch,
                                       !.reads = pre \cup c.reads,
                                       !.indet = \/ c.branch = "none"
                                                 \/ ~InX(pre \cup c.reads)
                                                 \/ ~InM(c.mreads)]]
            [] OTHER ->
                 \* the loop ends and control leaves value without a return
                 [cursor |-> _prev_point,
                  obs |-> [base EXCEPT !.exit = "none", !.ret = w[1],
                                       !.visited = s.visited, !.reads = pre,
                                       !.indet = TRUE]]

(***************************************************************************)
(* Inputs: the arrays a caller hands over.  The code validates nothing, so *)
(* besides sorted tables the caller may pass a table that descends or one  *)
(* that holds a NaN.                                                       *)
(***************************************************************************)
Lengths == 1..MaxLen

RECURSIVE SumTo(_, _)
SumTo(g, k) == IF k = 0 THEN 0 ELSE g[k] + SumTo(g, k - 1)

\* sorted x tables: start at 0, step by 0 (a repeated sample) or by 2
SortedTables(n) ==
  {[i \in 1..n |-> T(SumTo(g, i - 1))] : g \in [1..(n - 1) -> {0, 2}]}

\* x tables with a descent: start at 0, step by 2, but once by -2
DescentTables(n) ==
  {[i \in 1..n |-> T(SumTo([j \in 1..(n - 1) |-> IF j = k THEN -2 ELSE 2], i - 1))] :
     k \in 1..(n - 1)}

\* the evenly spaced table 0, 2, 4, ... with one sample replaced by NaN
NaNTables(n) ==
  {[i \in 1..n |-> IF i = k THEN NaN ELSE T(2 * (i - 1))] : k \in 1..n}

XTables(n) == SortedTables(n) \cup DescentTables(n) \cup NaNTables(n)

\* y table: the squares 0, 1, 4, 9, ... (all samples distinct)
YTable(n) == [i \in 1..n |-> T((i - 1) * (i - 1))]
\* tangent table: -1, 1, 3, 5, ...
MTable(n) == [i \in 1..n |-> T(2 * i - 3)]

Tables == UNION {{[x |-> xs, y |-> YTable(n), m |-> MTable(n), n |-> n] :
                    xs \in XTables(n)} : n \in Lengths}

\* queries: every integer from below the lowest to above the highest
\* sample, and NaN
Queries == {T(k) : k \in (-3)..(2 * MaxLen - 1)} \cup {NaN}

(***************************************************************************)
(* Operations.                                                             *)
(***************************************************************************)
\* void setPoints( T x[], T y[], int numPoints )
SetPoints3 ==
  \E t \in Tables :
    /\ _x' = t.x
    /\ _y' = t.y
    /\ _length' = t.n
    /\ op' = "setPoints3"
    /\ call' = NoCall
    /\ UNCHANGED <<_m, _degree, _prev_point>>

\* (a variant of the overload below that also selects Hermite mode)
SetPoints4_SelectsHermite ==
  \E t \in Tables :
    /\ _x' = t.x
    /\ _y' = t.y
    /\ _m' = t.m
    /\ _length' = t.n
    /\ _degree' = Hermite
    /\ op' = "setPoints4"
    /\ call' = NoCall
    /\ UNCHANGED _prev_point

\* void setPoints( T x[], T y[], T m[], int numPoints )
SetPoints4 ==
  \E t \in Tables :
    /\ _x' = t.x
    /\ _y' = t.y
    /\ _m' = t.m
    /\ _length' = t.n
    /\ op' = "setPoints4"
    /\ call' = NoCall
    /\ UNCHANGED <<_degree, _prev_point>>

\* void setDegree( int degree )
SetDegree ==
  \E degree \in DegreeVals :
    /\ _degree' = degree
    /\ op' = "setDegree"
    /\ call' = NoCall
    /\ UNCHANGED <<_x, _y, _m, _length, _prev_point>>

\* every outcome of value(x); the indeterminate values matter only to a
\* call that reads or returns one
Outcomes(x) ==
  LET v == value(x, <<T(0), T(0)>>) IN
  IF v.obs.indet THEN {value(x, w) : w \in Wilds} ELSE {v}

\* T value( T x ), called on an evaluator that holds a sample table.
\* asc records that this call directly follows a call of value that found
\* a match, with a query not below that call's.
Value ==
  /\ _length >= 1
  /\ \E x \in Queries : \E v \in Outcomes(x) :
       LET asc == /\ op = "value"
                  /\ call.exit \in {"exact", "calc"}
                  /\ ~TLess(x, call.arg)
                  /\ IsNum(x)
       IN /\ _prev_point' = v.cursor
          /\ call' = [v.obs EXCEPT !.asc = asc]
          /\ op' = "value"
          /\ UNCHANGED <<_x, _y, _m, _degree, _length>>

(***************************************************************************)
(* Construction.                                                           *)
(***************************************************************************)
\* Spline( void ): only the cursor is initialised
InitDefault ==
  /\ _x = <<>> /\ _y = <<>> /\ _m = <<>>
  /\ _length = 0
  /\ _degree \in DegreeVals
  /\ _prev_point = 0
  /\ op = "Spline0"
  /\ call = NoCall

\* Spline( T x[], T y[], int numPoints, int degree = 1 )
InitPoints ==
  \E t \in Tables :
    /\ _x = t.x /\ _y = t.y /\ _m = <<>>
    /\ _length = t.n
    /\ _degree \in DegreeVals
    /\ _prev_point = 0
    /\ op = "Spline3"
    /\ call = NoCall

\* Spline( T x[], T y[], T m[], int numPoints )
InitTangents ==
  \E t \in Tables :
    /\ _x = t.x /\ _y = t.y /\ _m = t.m
    /\ _length = t.n
    /\ _degree = Hermite
    /\ _prev_point = 0
    /\ op = "Spline4"
    /\ call = NoCall

Init == InitDefault \/ InitPoints \/ InitTangents

Next == SetPoints3 \/ SetPoints4 \/ SetDegree \/ Value

Spec == Init /\ [][Next]_vars

(***************************************************************************)
(* Vocabulary of the properties.                                           *)
(***************************************************************************)
TLeq(a, b) == TLess(a, b) \/ TEq(a, b)
Called == op = "value"
Numeric == \A i \in 1.._length : IsNum(_x[i])
NonDecreasing == Numeric /\ \A i \in 1..(_length - 1) : TLeq(_x[i], _x[i + 1])
NonIncreasing == Numeric /\ \A i \in 1..(_length - 1) : TLeq(_x[i + 1], _x[i])
StrictlyIncreasing == Numeric /\ \A i \in 1..(_length - 1) : TLess(_x[i], _x[i + 1])
\* x[0] <= q <= x[N-1]
InRange(q) == TLeq(_x[1], q) /\ TLeq(q, _x[_length])
\* candidate idx (counted from 0) holds q: x[idx] == q or x[idx] < q < x[idx+1]
MatchAt(idx, q) ==
  \/ TEq(_x[idx + 1], q)
  \/ TLess(_x[idx + 1], q) /\ idx + 1 < _length /\ TLess(q, _x[idx + 2])
Min(S) == CHOOSE k \in S : \A j \in S : k <= j

(***************************************************************************)
(* C1 as stated: with non-decreasing x, value(x[i]) returns exactly y[i]   *)
(* for every index i and every cursor.  Refuted by a repeated sample.      *)
(***************************************************************************)
C1_AsClaimed ==
  (Called /\ NonDecreasing) =>
    \A i \in 1.._length : TEq(call.arg, _x[i]) => call.ret = _y[i]

(***************************************************************************)
(* C1: with non-decreasing x, value(x[i]) returns through the exact-match  *)
(* return, without calc, the y of a sample j whose x equals x[i], and      *)
(* leaves the cursor at j; it returns exactly y[i] when no other sample    *)
(* has the x of sample i.                                                  *)
(***************************************************************************)
C1_SamplePoint ==
  (Called /\ NonDecreasing) =>
    \A i \in 1.._length :
      TEq(call.arg, _x[i]) =>
        /\ call.exit = "exact"
        /\ _prev_point \in 0..(_length - 1)
        /\ TEq(_x[_prev_point + 1], _x[i])
        /\ call.ret = _y[_prev_point + 1]
        /\ (\A j \in 1.._length : TEq(_x[j], _x[i]) => j = i) => call.ret = _y[i]

\* value was asked for the x of a sample of a sorted table, away from the cursor
C1_Witness ==
  /\ Called /\ NonDecreasing /\ _length >= 3
  /\ call.exit = "exact" /\ Len(call.visited) >= 2
  /\ \A j \in 1.._length : TEq(_x[j], call.arg) => j = _prev_point + 1

(***************************************************************************)
(* C2 as stated: if x[i] == x[i+1], value at that x returns y[i] from      *)
(* every cursor.  Refuted from the cursor i + 1.                           *)
(***************************************************************************)
C2_AsClaimed ==
  (Called /\ NonDecreasing) =>
    \A i \in 1..(_length - 1) :
      (TEq(_x[i], _x[i + 1]) /\ TEq(call.arg, _x[i])) => call.ret = _y[i]

(***************************************************************************)
(* C2: if adjacent samples of a non-decreasing table share the x that is   *)
(* queried, value returns through the exact-match return, with no          *)
(* arithmetic: the y of the sample the scan starts at (cursor mod N) when  *)
(* that sample has the queried x, else the y of the first sample that has  *)
(* it.                                                                     *)
(***************************************************************************)
C2_RepeatedSample ==
  (Called /\ NonDecreasing) =>
    LET run == {j \in 1.._length : TEq(_x[j], call.arg)}
        start == (call.from % _length) + 1
    IN Cardinality(run) >= 2 =>
         /\ call.exit = "exact"
         /\ call.at = -1
         /\ IsNum(call.ret)
         /\ call.ret = IF start \in run THEN _y[start] ELSE _y[Min(run)]

\* the scan started inside a run of equal samples, after its first sample
C2_Witness ==
  /\ Called /\ NonDecreasing
  /\ \E i \in 1..(_length - 1) :
       /\ TEq(_x[i], _x[i + 1]) /\ TEq(call.arg, _x[i])
       /\ call.from % _length = i
       /\ call.ret = _y[i + 1]

(***************************************************************************)
(* C3 as stated: after setPoints(x, y, m, n) the evaluator is in Hermite   *)
(* mode.  Refuted: that overload does not touch _degree.                   *)
(***************************************************************************)
C3_AsClaimed == op = "setPoints4" => _degree = Hermite

(***************************************************************************)
(* C3: the constructor Spline(x, y, m, n) leaves the evaluator in Hermite  *)
(* mode; setPoints(x, y, m, n) leaves the degree as it was, and the next   *)
(* value call that reaches calc takes the branch of that degree.           *)
(***************************************************************************)
BranchOf(d) ==
  CASE d = 0 -> {"constant"}
    [] d = 1 -> {"linear", "linear_guard"}
    [] d = Hermite -> {"hermite"}
    [] d = Catmull -> {"catmull_first", "catmull_last", "catmull"}
    [] OTHER -> {"none"}

C3_DegreeKept ==
  /\ op = "Spline4" => _degree = Hermite
  /\ [][/\ op' = "setPoints4" => _degree' = _degree
        /\ (op = "setPoints4" /\ op' = "value" /\ call'.exit = "calc")
             => call'.branch \in BranchOf(_degree)]_vars

\* setPoints(x, y, m, n) was called on an evaluator in Catmull mode
C3_Witness == op = "setPoints4" /\ _degree = Catmull /\ Len(_m) = _length

(***************************************************************************)
(* C4 as stated: Catmull mode, N >= 2, strictly increasing x: a query      *)
(* strictly inside the first segment returns y[1], one strictly inside the *)
(* last segment returns y[N-2].  Refuted for N = 2.                        *)
(***************************************************************************)
C4_AsClaimed ==
  (Called /\ _degree = Catmull /\ _length >= 2 /\ StrictlyIncreasing) =>
    /\ (TLess(_x[1], call.arg) /\ TLess(call.arg, _x[2])) => call.ret = _y[2]
    /\ (TLess(_x[_length - 1], call.arg) /\ TLess(call.arg, _x[_length]))
         => call.ret = _y[_length - 1]

(***************************************************************************)
(* C4: Catmull mode, strictly increasing x: for N >= 2 a query strictly    *)
(* inside the first segment returns y[1]; for N >= 3 a query strictly      *)
(* inside the last segment returns y[N-2].                                 *)
(***************************************************************************)
C4_Boundary ==
  (Called /\ _degree = Catmull /\ _length >= 2 /\ StrictlyIncreasing) =>
    /\ (TLess(_x[1], call.arg) /\ TLess(call.arg, _x[2])) => call.ret = _y[2]
    /\ (_length >= 3 /\ TLess(_x[_length - 1], call.arg)
                     /\ TLess(call.arg, _x[_length]))
         => call.ret = _y[_length - 1]

\* a query inside the last segment of a table with an interior segment
C4_Witness ==
  /\ Called /\ _degree = Catmull /\ _length >= 4 /\ StrictlyIncreasing
  /\ TLess(_x[_length - 1], call.arg) /\ TLess(call.arg, _x[_length])
  /\ call.branch = "catmull_last"

(***************************************************************************)
(* C5 as stated: for every table, q < x[0] returns y[0] and q > x[N-1]     *)
(* returns y[N-1], without a scan.  Refuted when x[0] > q > x[N-1].        *)
(***************************************************************************)
C5_AsClaimed ==
  Called =>
    /\ TLess(call.arg, _x[1]) => (call.ret = _y[1] /\ call.visited = <<>>)
    /\ TLess(_x[_length], call.arg)
         => (call.ret = _y[_length] /\ call.visited = <<>>)

(***************************************************************************)
(* C5: for every table, mode and cursor, q < x[0] returns y[0], and        *)
(* q > x[N-1] returns y[N-1] unless q < x[0]; neither runs the scan nor    *)
(* moves the cursor.                                                       *)
(***************************************************************************)
C5_Extrapolation ==
  Called =>
    /\ TLess(call.arg, _x[1])
         => /\ call.exit = "below" /\ call.ret = _y[1]
            /\ call.visited = <<>> /\ _prev_point = call.from
    /\ (TLess(_x[_length], call.arg) /\ ~TLess(call.arg, _x[1]))
         => /\ call.exit = "above" /\ call.ret = _y[_length]
            /\ call.visited = <<>> /\ _prev_point = call.from

\* a query above the last sample, asked with the cursor away from 0
C5_Witness ==
  /\ Called /\ _length >= 2 /\ call.from > 0
  /\ TLess(_x[_length], call.arg) /\ call.exit = "above"

(***************************************************************************)
(* C6 as stated: on a sorted table, a call of value in an ascending run of *)
(* in-range queries examines at most a constant number of candidates,      *)
(* whatever N and the distance from the previous query; stated with the    *)
(* constant 2, the count for a query in the previous query's segment or    *)
(* the next.  Refuted: the count grows with the distance, up to N.         *)
(***************************************************************************)
C6_AsClaimed ==
  (Called /\ call.asc /\ NonDecreasing /\ InRange(call.arg)) =>
    Len(call.visited) <= 2

(***************************************************************************)
(* C6: on a sorted table, a call of value whose in-range query is not      *)
(* below that of the call before it (which found a match) starts at the    *)
(* index that call matched, scans forward without wrapping, and examines   *)
(* exactly (index matched now - index matched before) + 1 candidates.      *)
(***************************************************************************)
C6_Locality ==
  (Called /\ call.asc /\ NonDecreasing /\ InRange(call.arg)) =>
    /\ call.exit \in {"exact", "calc"}
    /\ call.from \in 0..(_length - 1)
    /\ call.from <= _prev_point
    /\ Len(call.visited) = _prev_point - call.from + 1
    /\ \A j \in 1..Len(call.visited) : call.visited[j] = call.from + j - 1

\* an ascending query that made the scan examine every sample of the longest table
C6_Witness ==
  /\ Called /\ call.asc /\ StrictlyIncreasing /\ InRange(call.arg)
  /\ _length = MaxLen /\ Len(call.visited) = _length

(***************************************************************************)
(* C7: for a query q with x[0] <= q <= x[N-1], value examines the          *)
(* candidates (cursor + k) mod N for k = 0, 1, ... in that order and stops *)
(* at the first candidate idx with x[idx] == q or x[idx] < q < x[idx+1];   *)
(* on return the cursor is idx and the value returned is y[idx] for an     *)
(* exact match and calc(q, idx) otherwise.                                 *)
(***************************************************************************)
C7_CyclicScan ==
  (Called /\ InRange(call.arg)) =>
    LET cand(k) == (call.from + k) % _length
        hits == {k \in 0..(_length - 1) : MatchAt(cand(k), call.arg)}
    IN hits # {} =>
         LET k0 == Min(hits)
             idx == cand(k0)
         IN /\ call.visited = [j \in 1..(k0 + 1) |-> cand(j - 1)]
            /\ _prev_point = idx
            /\ IF TEq(_x[idx + 1], call.arg)
               THEN call.exit = "exact" /\ call.ret = _y[idx + 1]
               ELSE /\ call.exit = "calc" /\ call.at = idx
                    /\ call.ret \in {calc(call.arg, idx, w).ret : w \in Wilds}

\* a scan that wrapped around the end of the table before it matched
C7_Witness ==
  /\ Called /\ InRange(call.arg) /\ call.exit = "calc"
  /\ Len(call.visited) >= 3
  /\ call.from > _prev_point
  /\ _degree = 1

C9_CalcPrecondition ==
  Called =>
    /\ call.reads \subseteq 0..(_length - 1)
    /\ call.exit = "calc" =>
         /\ call.at \in 0..(_length - 2)
         /\ TLess(_x[call.at + 1], call.arg)
         /\ TLess(call.arg, _x[call.at + 2])
         /\ IsNum(TSub(_x[call.at + 2], _x[call.at + 1]))
         /\ TSub(_x[call.at + 2], _x[call.at + 1]) # T(0)

\* calc ran on an interior segment in Catmull mode and read the last sample
\* for the tangent at the segment's end, after the scan wrapped around
C9_Witness ==
  /\ Called /\ call.exit = "calc" /\ call.branch = "catmull"
  /\ call.at + 2 = _length - 1
  /\ call.from > _prev_point
  /\ call.reads = 0..(_length - 1)

(***************************************************************************)
(* C10: for a table with strictly increasing x, a mode of calc (with the   *)
(* tangent table in place in Hermite mode) and a numeric query, the value  *)
(* returned is a function of the table, the mode and the query alone: it   *)
(* is the same whatever the cursor, hence whatever calls came before.      *)
(***************************************************************************)
CursorFree(q) ==
  IF TLess(q, _x[1]) THEN _y[1]
  ELSE IF TLess(_x[_length], q) THEN _y[_length]
  ELSE LET idx == CHOOSE i \in 0..(_length - 1) : MatchAt(i, q) IN
       IF TEq(_x[idx + 1], q) THEN _y[idx + 1]
       ELSE calc(q, idx, <<T(0), T(0)>>).ret

====
